---- MODULE Spec2Model ----
(***************************************************************************)
(* Model of the Salesforce extraction client: one call of get_records_list *)
(* (salesforce_rest_api.py) with the SOAP login of                         *)
(* salesforce_authentication.py and the helpers of helper_functions.py.    *)
(*                                                                         *)
(* The program is single-threaded and blocking, so every HTTP exchange     *)
(* (request sent, response received) is one step.  The server is the       *)
(* environment: it chooses the status of every response, the body of every *)
(* login and describe response, and owns a finite chain of result pages.   *)
(* Every exchange is appended to the history variable log.                 *)
(*                                                                         *)
(* Python's None is the empty tuple and a present value v is <<v>>, so     *)
(* that "absent" and "present but falsy" ([] or 0) stay distinct values.   *)
(* Strings are TLA+ strings and concatenation is \o, as in the f-strings.  *)
(***************************************************************************)
EXTENDS Integers, Sequences, FiniteSets, TLC

None == <<>>
Some(v) == <<v>>

\* ---------------------------------------------------------------- bounds
\* Longest page chain the server owns.
MaxPages == 3

\* ------------------------------------------------------- program constants
\* The only status the three status checks accept.
StatusOK == 200
\* os.environ["SALESFORCE_URL"]
SALESFORCE_URL == "https://sf.example"

\* ------------------------------------------------------------ input sets
ObjectNames == {"Account"}
FieldsInputs == {None, Some(<<>>), Some(<<"Id", "Name">>)}
LimitInputs == {None, Some(0), Some(10)}

\* ------------------------------------------------- the server's answers
Statuses == {200, 401}
SessionIds == {"sidA", "sidB"}

\* A login response: the XML text is modelled by whether it parses and by
\* the text of its sessionId node (absent = None).
LoginBodies ==
    {[wellformed |-> TRUE, sessionId |-> Some(s)] : s \in SessionIds}
    \cup {[wellformed |-> TRUE, sessionId |-> None],
          [wellformed |-> FALSE, sessionId |-> None]}
LoginResponses ==
    {[status |-> 200, body |-> b] : b \in LoginBodies}
    \cup {[status |-> 401, body |-> [wellformed |-> TRUE, sessionId |-> None]]}

\* A describe response: the JSON object's "fields" list.
DescribeBodies ==
    {[fields |-> <<>>],
     [fields |-> <<[name |-> "Id"]>>],
     [fields |-> <<[name |-> "Name"], [name |-> "Id"]>>]}
DescribeResponses ==
    {[status |-> 200, body |-> b] : b \in DescribeBodies}
    \cup {[status |-> 401, body |-> [fields |-> <<>>]]}

\* Raw records as the server sends them.
RecA == [attributes |-> "meta", Id |-> "1", Name |-> "a"]
RecB == [attributes |-> "meta", Id |-> "2"]
RecC == [Id |-> "3", Name |-> "c"]
\* The "records" key of a page: absent, or a list.
PageRecordLists == {None, Some(<<RecA, RecB>>), Some(<<RecC>>)}

\* The cursor the server hands out for page k.
Cursor(k) == "/cursor" \o ToString(k)

\* The chains of pages a server can own: every page but the last carries
\* the cursor of the next one, the last carries none.
Chains ==
    UNION {
      {[k \in 1..n |->
          [records |-> f[k],
           nextRecordsUrl |-> IF k < n THEN Some(Cursor(k + 1)) ELSE None]]
        : f \in [1..n -> PageRecordLists]}
      : n \in 1..MaxPages}

\* -------------------------------------------------------------- variables
VARIABLES
    pc,           \* position of the call
    object_name,  \* get_records_list argument
    fields,       \* get_records_list argument / local (line 21 rebinds it)
    fields_arg,   \* history: `fields` as the caller passed it
    limit,        \* get_records_list argument
    query,        \* result of get_query
    next_url,     \* get_rest_query_results argument of the active frame
    session_id,   \* value of the last fetch_session_id()
    stack,        \* `records` of the suspended get_rest_query_results frames
    raw_results,  \* get_records_list local
    result,       \* value returned to the caller (None until returned)
    error,        \* exception that ended the call ("" if none)
    log,          \* history of HTTP exchanges
    chain         \* the server's pages

vars == <<pc, object_name, fields, fields_arg, limit, query, next_url, session_id,
          stack, raw_results, result, error, log, chain>>

\* ---------------------------------------------------------- pure helpers
\* Python truthiness of an optional list / optional int: `not x`.
NotFields(f) == f = None \/ Len(f[1]) = 0
NotLimit(l) == l = None \/ l[1] = 0

\* ",".join(seq)
RECURSIVE Join(_, _)
Join(seq, sep) ==
    IF Len(seq) = 0 THEN ""
    ELSE IF Len(seq) = 1 THEN seq[1]
    ELSE seq[1] \o sep \o Join(Tail(seq), sep)

\* An outcome of a call: the exception raised ("" if none) and the value.
Raise(e) == [raised |-> e, value |-> None]
Return(v) == [raised |-> "", value |-> v]

\* ------------------------------------------------ salesforce_rest_api.py
\* get_query: the SOQL query fragment, or the "you MUST provide a list of
\* fields" exception (named QueryInvalid here).
get_query(o, f, l) ==
    IF NotFields(f) /\ NotLimit(l)
    THEN Raise("QueryInvalid")
    ELSE LET fields_string ==
                 IF ~NotFields(f) THEN Join(f[1], ",") ELSE "FIELDS(ALL)"
             limit_string ==
                 IF ~NotLimit(l) THEN "+LIMIT+" \o ToString(l[1]) ELSE ""
         IN Return("queryAll/?q=SELECT+" \o fields_string
                   \o "+FROM+" \o o \o limit_string)

\* The target of a data request (lines 62-66).  The first f-string is split
\* with a backslash-newline inside the literal: the blank before the
\* backslash and the 16 blanks indenting the continuation line are part of
\* the string.
rest_query_url(q, nu) ==
    IF nu = None
    THEN SALESFORCE_URL \o " " \o "                "
         \o "/services/data/v60.0/" \o q
    ELSE SALESFORCE_URL \o nu[1]

\* The target of the describe request (lines 102-103).
describe_url(o) ==
    SALESFORCE_URL \o "/services/data/v60.0/sobjects/" \o o \o "/describe/"

\* str() of an optional string inside an f-string.
Str(x) == IF x = None THEN "None" ELSE x[1]

\* The Authorization header (lines 71 and 105).
Bearer(sid) == "Bearer " \o Str(sid)

\* Mutant: only server errors count as failures.
rest_query_failed_5xx(status) == status >= 500
\* The status check of the data request (line 76).
rest_query_failed(status) == status # StatusOK

\* The status check of the describe request (line 108).
describe_failed(status) == status # StatusOK

\* data.get("records", []) (line 82).
data_records(data) == IF data.records = None THEN <<>> ELSE data.records[1]

\* Mutant: a page without records ends the pagination.
has_next_nonempty(data) ==
    data.nextRecordsUrl # None /\ data.records # None
\* "nextRecordsUrl" in data (line 85).
has_next(data) == data.nextRecordsUrl # None

\* Mutant: the new page is put in front of the accumulated ones.
extend_front(records, next_records) == next_records \o records
\* records.extend(next_records) (line 88).
extend(records, next_records) == records \o next_records

\* The returns of the suspended frames, innermost first (lines 86-90):
\* each frame extends its own records with what its callee returned.
RECURSIVE unwind(_, _)
unwind(frames, returned) ==
    IF frames = <<>> THEN returned
    ELSE unwind(SubSeq(frames, 1, Len(frames) - 1),
                extend(frames[Len(frames)], returned))

\* Mutant: the filter keeps only the Id key.
strip_to_id(d) == [k \in DOMAIN d \cap {"Id"} |-> d[k]]
\* {k: v for k, v in d.items() if k != "attributes"} (line 26).
strip_attributes(d) == [k \in DOMAIN d \ {"attributes"} |-> d[k]]

\* The list comprehension of lines 25-28.
normalize(raw) == [i \in 1..Len(raw) |-> strip_attributes(raw[i])]

\* ------------------------------------------------- helper_functions.py
\* get_nested_values: [d[key] for d in data], for key = "name".
get_nested_values(data) == [i \in 1..Len(data) |-> data[i].name]

\* ------------------------------------------ salesforce_authentication.py
login_url == SALESFORCE_URL \o "/services/Soap/u/60.0"

\* Mutant: a missing sessionId node is an error.
extract_session_id_strict(body) ==
    IF ~body.wellformed THEN Raise("ParseError")
    ELSE IF body.sessionId = None THEN Raise("SessionIdNotFound")
    ELSE Return(body.sessionId)
\* extract_session_id: ET.fromstring raises on text that is not XML; a
\* missing node prints a warning and returns None.
extract_session_id(body) ==
    IF ~body.wellformed THEN Raise("ParseError")
    ELSE Return(body.sessionId)

\* get_session_id, given the response to its POST (lines 24-28).
get_session_id(response) ==
    IF response.status # StatusOK THEN Raise("AuthenticationFailed")
    ELSE extract_session_id(response.body)

\* ------------------------------------------------------------- the server
\* The page the server holds for a request: the page a cursor names, or
\* the first page for a fresh query.
server_page(url) ==
    IF \E k \in 2..Len(chain) : url = SALESFORCE_URL \o Cursor(k)
    THEN chain[CHOOSE k \in 2..Len(chain) : url = SALESFORCE_URL \o Cursor(k)]
    ELSE chain[1]

\* One entry of the exchange history.
Exchange(kind, by, url, auth, response) ==
    [kind |-> kind, by |-> by, url |-> url, auth |-> auth,
     status |-> response.status, body |-> response.body]

\* The call ends with an exception: no frame survives, nothing is returned.
Fail(e) ==
    /\ pc' = "error"
    /\ error' = e
    /\ stack' = <<>>

\* ------------------------------------------------------------------ Init
Init ==
    /\ pc = "get_records_list"
    /\ object_name \in ObjectNames
    /\ fields \in FieldsInputs
    /\ fields_arg = fields
    /\ limit \in LimitInputs
    /\ query = ""
    /\ next_url = None
    /\ session_id = None
    /\ stack = <<>>
    /\ raw_results = <<>>
    /\ result = None
    /\ error = ""
    /\ log = <<>>
    /\ chain \in Chains

\* --------------------------------------------------------------- actions
\* get_records_list, line 20: discover the fields or go on to the query.
GetRecordsList ==
    /\ pc = "get_records_list"
    /\ pc' = IF NotFields(fields) /\ NotLimit(limit)
             THEN "get_field_names_login" ELSE "get_query"
    /\ UNCHANGED <<object_name, fields, fields_arg, limit, query, next_url,
                   session_id, stack, raw_results, result, error, log,
                   chain>>

\* The login exchange of fetch_session_id(), called by `by`; on success
\* the call goes on at `next`.
Login(by, next) ==
    \E response \in LoginResponses :
        LET outcome == get_session_id(response) IN
        /\ log' = Append(log, Exchange("login", by, login_url, "", response))
        /\ IF outcome.raised # ""
           THEN /\ Fail(outcome.raised)
                /\ UNCHANGED session_id
           ELSE /\ session_id' = outcome.value
                /\ pc' = next
                /\ UNCHANGED <<error, stack>>
        /\ UNCHANGED <<object_name, fields, fields_arg, limit, query,
                       next_url, raw_results, result, chain>>

\* get_field_names, line 105: the header needs a session id first.
GetFieldNamesLogin ==
    /\ pc = "get_field_names_login"
    /\ Login("get_field_names", "get_field_names")

\* get_field_names, lines 101-111: the describe exchange.
GetFieldNames ==
    /\ pc = "get_field_names"
    /\ \E response \in DescribeResponses :
        /\ log' = Append(log, Exchange("describe", "get_field_names",
                                      describe_url(object_name),
                                      Bearer(session_id), response))
        /\ IF describe_failed(response.status)
           THEN /\ Fail("DescribeFailed")
                /\ UNCHANGED fields
           ELSE /\ fields' = Some(get_nested_values(response.body.fields))
                /\ pc' = "get_query"
                /\ UNCHANGED <<error, stack>>
    /\ UNCHANGED <<object_name, fields_arg, limit, query, next_url,
                   session_id, raw_results, result, chain>>

\* get_records_list, line 22.
GetQuery ==
    /\ pc = "get_query"
    /\ LET outcome == get_query(object_name, fields, limit) IN
        IF outcome.raised # ""
        THEN /\ Fail(outcome.raised)
             /\ UNCHANGED query
        ELSE /\ query' = outcome.value
             /\ pc' = "fetch_session_id"
             /\ UNCHANGED <<error, stack>>
    /\ UNCHANGED <<object_name, fields, fields_arg, limit, next_url,
                   session_id, raw_results, result, log, chain>>

\* get_rest_query_results, line 71: every frame calls fetch_session_id()
\* while it builds the headers of its request.
FetchSessionId ==
    /\ pc = "fetch_session_id"
    /\ Login("get_rest_query_results", "get_rest_query_results")

\* get_rest_query_results, lines 62-90, and, when the outermost frame
\* returns, get_records_list lines 23-28.
GetRestQueryResults ==
    /\ pc = "get_rest_query_results"
    /\ LET url == rest_query_url(query, next_url) IN
       \E status \in Statuses :
        LET data == server_page(url)
            response == [status |-> status, body |-> data]
            records == data_records(data)
        IN
        /\ log' = Append(log, Exchange("query", "get_rest_query_results",
                                      url, Bearer(session_id), response))
        /\ IF rest_query_failed(status)
           THEN /\ Fail("QueryFailed")
                /\ UNCHANGED <<next_url, raw_results, result>>
           ELSE IF has_next(data)
           THEN /\ stack' = Append(stack, records)
                /\ next_url' = data.nextRecordsUrl
                /\ pc' = "fetch_session_id"
                /\ UNCHANGED <<raw_results, result, error>>
           ELSE /\ raw_results' = unwind(stack, records)
                /\ result' = Some(normalize(raw_results'))
                /\ stack' = <<>>
                /\ pc' = "done"
                /\ UNCHANGED <<next_url, error>>
    /\ UNCHANGED <<object_name, fields, fields_arg, limit, query,
                   session_id, chain>>

Next ==
    \/ GetRecordsList
    \/ GetFieldNamesLogin
    \/ GetFieldNames
    \/ GetQuery
    \/ FetchSessionId
    \/ GetRestQueryResults

Spec == Init /\ [][Next]_vars

\* The call is sequential and blocking: as long as a step is possible (the
\* server answers the pending request) the call takes it.
FairSpec == Spec /\ WF_vars(Next)

\* ------------------------------------------------------------ properties
QueryIdx == {i \in DOMAIN log : log[i].kind = "query"}
LoginIdx == {i \in DOMAIN log : log[i].kind = "login"}
DescribeIdx == {i \in DOMAIN log : log[i].kind = "describe"}

\* The records of the server's pages, first page first.
RECURSIVE PagesFrom(_)
PagesFrom(k) ==
    IF k > Len(chain) THEN <<>>
    ELSE (IF chain[k].records = None THEN <<>> ELSE chain[k].records[1])
         \o PagesFrom(k + 1)

\* C1: when every page of the chain was served with status 200 and the
\* query call has returned, the list it returned is exactly the
\* concatenation of the pages' record lists in page order: nothing is
\* dropped, duplicated or reordered at a page boundary.
C1_ConcatenationOfPages ==
    pc = "done" => raw_results = PagesFrom(1)

C1_Witness ==
    /\ pc = "done"
    /\ Len(chain) = 2
    /\ raw_results = <<RecA, RecB, RecC>>

\* C2: within one call no login is issued between the first and the last
\* data request, and every data request carries the same session id.
C2_SessionFetchedOnce ==
    /\ \A i \in QueryIdx, k \in QueryIdx, j \in LoginIdx : ~(i < j /\ j < k)
    /\ \A i \in QueryIdx, k \in QueryIdx : log[i].auth = log[k].auth

\* C3: an exchange answered with a status other than 200 is the last
\* exchange of the call: the call is in its error state with the error of
\* that exchange, nothing was sent after it and nothing is returned.
C3_FailFast ==
    \A i \in DOMAIN log :
        log[i].status # 200 =>
            /\ i = Len(log)
            /\ pc = "error"
            /\ result = None
            /\ error = CASE log[i].kind = "login" -> "AuthenticationFailed"
                         [] log[i].kind = "describe" -> "DescribeFailed"
                         [] log[i].kind = "query" -> "QueryFailed"

C3_Witness ==
    /\ pc = "error"
    /\ error = "QueryFailed"
    /\ result = None
    /\ \E i \in QueryIdx :
          i < Len(log) /\ log[i].body.records = Some(<<RecA, RecB>>)

\* C4: with neither fields nor limit given, a describe exchange answered
\* with 200 precedes every data request and the query names exactly the
\* discovered fields, comma-joined in discovery order; with fields or limit
\* given, no describe request is issued.
C4_DescribeIffNeitherGiven ==
    /\ (fields_arg = None /\ limit = None) =>
          /\ \A i \in QueryIdx :
                \E d \in DescribeIdx : d < i /\ log[d].status = 200
          /\ query # "" =>
                \E d \in DescribeIdx :
                    query = "queryAll/?q=SELECT+"
                            \o Join(get_nested_values(log[d].body.fields), ",")
                            \o "+FROM+" \o object_name
    /\ (fields_arg # None \/ limit # None) => DescribeIdx = {}

\* C5: a call through get_records_list never ends in the query builder's
\* "invalid query parameters" failure.
C5_QueryInvalidUnreachable ==
    error # "QueryInvalid"

C7_QueryShape ==
    query # "" =>
        query = "queryAll/?q=SELECT+"
                \o (IF fields # None THEN Join(fields[1], ",")
                    ELSE "FIELDS(ALL)")
                \o "+FROM+" \o object_name
                \o (IF limit # None THEN "+LIMIT+" \o ToString(limit[1])
                    ELSE "")

\* C8: the list returned to the caller has one record per raw record, in
\* the same order; each has no attributes key and exactly the other keys
\* of its raw record with the same values; the raw records are still the
\* ones the server sent.
C8_AttributesStripped ==
    pc = "done" =>
        /\ result # None
        /\ Len(result[1]) = Len(raw_results)
        /\ \A i \in DOMAIN raw_results :
              /\ "attributes" \notin DOMAIN result[1][i]
              /\ DOMAIN result[1][i] = DOMAIN raw_results[i] \ {"attributes"}
              /\ \A k \in DOMAIN result[1][i] :
                    result[1][i][k] = raw_results[i][k]
              /\ raw_results[i] \in {RecA, RecB, RecC}

C8_Witness ==
    /\ pc = "done"
    /\ raw_results = <<RecC, RecA, RecB>>
    /\ result = Some(<<[Id |-> "3", Name |-> "c"],
                       [Id |-> "1", Name |-> "a"],
                       [Id |-> "2"]>>)

\* C9: the first data request goes to
\* <base_url>/services/data/v60.0/<query>, with nothing else in between,
\* and every later one to <base_url><cursor>, the cursor being the
\* nextRecordsUrl of the page received just before.
C9_PageUrl ==
    \A i \in QueryIdx :
        IF \A j \in QueryIdx : j >= i
        THEN log[i].url = SALESFORCE_URL \o "/services/data/v60.0/" \o query
        ELSE LET prev == CHOOSE j \in QueryIdx :
                             j < i /\ \A m \in QueryIdx : m < i => m <= j
             IN /\ log[prev].body.nextRecordsUrl # None
                /\ log[i].url
                     = SALESFORCE_URL \o log[prev].body.nextRecordsUrl[1]

\* The number of data requests among the first n exchanges.
QueriesUpTo(n) == Cardinality({i \in QueryIdx : i <= n})

\* C10: the k-th data request is answered with page k of the chain and is
\* sent only after page k-1 arrived with status 200 and a cursor; a call
\* whose responses all had status 200 returns after exactly one data
\* request per page, the last one answered by the cursor-less page.
C10_RequestsFollowChain ==
    /\ Cardinality(QueryIdx) <= Len(chain)
    /\ \A i \in QueryIdx :
          /\ log[i].body = chain[QueriesUpTo(i)]
          /\ \A j \in QueryIdx :
                j < i => log[j].status = 200 /\ log[j].body.nextRecordsUrl # None
    /\ pc = "done" =>
          /\ Cardinality(QueryIdx) = Len(chain)
          /\ log[Len(log)].kind = "query"
          /\ log[Len(log)].body.nextRecordsUrl = None

C10_OneRequestPerPage ==
    /\ []C10_RequestsFollowChain
    /\ <>(pc \in {"done", "error"})

C10_Witness ==
    /\ pc = "done"
    /\ Len(chain) = 3
    /\ Cardinality(QueryIdx) = 3

====
